---- MODULE Spec2Model ----
(***************************************************************************)
(* Model of idp_common/extraction/agentic_idp.py: the tool contract        *)
(* (extraction_tool / apply_json_patches / view_existing_extraction), the  *)
(* JSON-patch engine, the outer retry loop of structured_output_async, the *)
(* optional review exchange, token accounting and the model configuration. *)
(***************************************************************************)
EXTENDS Integers, Sequences, FiniteSets, TLC

(***************************************************************************)
(* Bounds of the model.                                                    *)
(***************************************************************************)
\* tool calls the model may issue during one invocation (all exchanges)
MaxToolCalls == 2
\* operations in one patch set
MaxPatchLen == 2
\* elements of the list field "rows"
MaxRows == 2

(***************************************************************************)
(* JSON values.  Every value has the same four fields so that any two      *)
(* values can be compared: t is the JSON type, n the number, s the string, *)
(* l the elements of a list.                                               *)
(***************************************************************************)
IntV(k) == [t |-> "int", n |-> k, s |-> "", l |-> <<>>]

StrV(x) == [t |-> "str", n |-> 0, s |-> x, l |-> <<>>]

ListV(xs) == [t |-> "list", n |-> 0, s |-> "", l |-> xs]

\* Optional values: None is the empty sequence, Some(x) the one-element one.
None == <<>>

Some(x) == <<x>>

IsNone(o) == o = <<>>

\* A mapping (dict) is a function from keys to values; the empty dict {}.
EmptyDict == <<>>

\* Python truthiness of agent.state.get("current_extraction"): None and {}
\* are falsy, every other mapping is truthy.
Truthy(o) == ~IsNone(o) /\ DOMAIN o[1] # {}

(***************************************************************************)
(* The schema (data_format): a Persona with a list field,                  *)
(*     age: int, name: str, rows: list[int]       (all required).          *)
(***************************************************************************)
SchemaFields == {"age", "name", "rows"}

\* str -> int parsing of pydantic's lax mode, for the numeric strings used.
IsNumericStr(x) == x \in {"34", "35"}

StrToInt(x) == CASE x = "34" -> 34 [] x = "35" -> 35 [] OTHER -> 0

\* an int field accepts an int or a string that parses as one
IntAccepts(v) == v.t = "int" \/ (v.t = "str" /\ IsNumericStr(v.s))

IntCoerce(v) == IF v.t = "int" THEN v ELSE IntV(StrToInt(v.s))

\* a str field accepts only a string
StrAccepts(v) == v.t = "str"

\* a list[int] field accepts a list whose every element an int field accepts
ListAccepts(v) == v.t = "list" /\ \A i \in 1..Len(v.l) : IntAccepts(v.l[i])

\* Faulty variant: a list is dumped as a string.
ListCoerce_as_str(v) == StrV("list")

ListCoerce(v) == ListV([i \in 1..Len(v.l) |-> IntCoerce(v.l[i])])

\* data_format(**m) succeeds: required fields present and of accepted type
\* (keys outside the schema are ignored).
IsValid(m) ==
    /\ SchemaFields \subseteq DOMAIN m
    /\ IntAccepts(m["age"])
    /\ StrAccepts(m["name"])
    /\ ListAccepts(m["rows"])

\* data_format(**m).model_dump(): the schema's fields only, values coerced.
ModelDump(m) ==
    [k \in SchemaFields |->
        CASE k = "age" -> IntCoerce(m["age"])
          [] k = "name" -> m["name"]
          [] OTHER -> ListCoerce(m["rows"])]

(***************************************************************************)
(* JSON patch (RFC 6902) as jsonpatch.JsonPatch(patches).apply(doc) does   *)
(* it on a copy of the document.  A path is the sequence of its reference  *)
(* tokens ("/rows/0" is <<"rows", "0">>).                                   *)
(***************************************************************************)
IsIndexToken(tok) == tok \in {"0", "1", "2", "3", "4", "5"}

TokenToInt(tok) ==
    CASE tok = "0" -> 0 [] tok = "1" -> 1 [] tok = "2" -> 2
      [] tok = "3" -> 3 [] tok = "4" -> 4 [] OTHER -> 5

Failed(doc) == [ok |-> FALSE, doc |-> doc]

Done(doc) == [ok |-> TRUE, doc |-> doc]

\* dict with key k set to v (inserted or overwritten)
DictSet(doc, k, v) ==
    [x \in (DOMAIN doc) \cup {k} |-> IF x = k THEN v ELSE doc[x]]

DictDel(doc, k) == [x \in (DOMAIN doc) \ {k} |-> doc[x]]

SeqInsert(xs, i, v) ==
    [j \in 1..(Len(xs) + 1) |->
        IF j < i + 1 THEN xs[j] ELSE IF j = i + 1 THEN v ELSE xs[j - 1]]

SeqDelete(xs, i) ==
    [j \in 1..(Len(xs) - 1) |-> IF j < i + 1 THEN xs[j] ELSE xs[j + 1]]

SeqReplace(xs, i, v) == [xs EXCEPT ![i + 1] = v]

\* An operation on a member of the root mapping: path = <<k>>.
ApplyAtRoot(doc, op) ==
    LET k == op.path[1] IN
    CASE op.op = "add" ->
            IF k = "-" THEN Failed(doc) ELSE Done(DictSet(doc, k, op.value))
      [] op.op = "replace" ->
            IF k = "-" \/ k \notin DOMAIN doc THEN Failed(doc)
            ELSE Done(DictSet(doc, k, op.value))
      [] op.op = "remove" ->
            IF k \notin DOMAIN doc THEN Failed(doc) ELSE Done(DictDel(doc, k))
      [] OTHER -> Failed(doc)

\* An operation on an element of a list member: path = <<k, tok>>.
ApplyInList(doc, op) ==
    LET k == op.path[1]
        tok == op.path[2]
    IN
    IF k \notin DOMAIN doc \/ doc[k].t # "list" THEN Failed(doc)
    ELSE
        LET xs == doc[k].l
            i == TokenToInt(tok)
        IN
        CASE op.op = "add" ->
                IF tok = "-" THEN Done(DictSet(doc, k, ListV(Append(xs, op.value))))
                ELSE IF ~IsIndexToken(tok) \/ i > Len(xs) THEN Failed(doc)
                ELSE Done(DictSet(doc, k, ListV(SeqInsert(xs, i, op.value))))
          [] op.op = "replace" ->
                IF ~IsIndexToken(tok) \/ i >= Len(xs) THEN Failed(doc)
                ELSE Done(DictSet(doc, k, ListV(SeqReplace(xs, i, op.value))))
          [] op.op = "remove" ->
                IF ~IsIndexToken(tok) \/ i >= Len(xs) THEN Failed(doc)
                ELSE Done(DictSet(doc, k, ListV(SeqDelete(xs, i))))
          [] OTHER -> Failed(doc)

\* One operation of a patch: the patched document, or failure.
ApplyOp(doc, op) ==
    CASE Len(op.path) = 1 -> ApplyAtRoot(doc, op)
      [] Len(op.path) = 2 -> ApplyInList(doc, op)
      [] OTHER -> Failed(doc)

\* patch.apply(existing_data): the operations in order, each on the result
\* of the previous one; the first failure raises.  `at` is the 1-based
\* position of the operation that raised (0 when none did).
RECURSIVE PatchFrom(_, _, _)
PatchFrom(doc, patches, i) ==
    IF i > Len(patches) THEN [ok |-> TRUE, doc |-> doc, at |-> 0]
    ELSE LET r == ApplyOp(doc, patches[i]) IN
         IF r.ok THEN PatchFrom(r.doc, patches, i + 1)
         ELSE [ok |-> FALSE, doc |-> doc, at |-> i]


\* Faulty variant: a patch that skips the operations that fail and keeps the rest.
RECURSIVE PatchSkipping(_, _, _)
PatchSkipping(doc, patches, i) ==
    IF i > Len(patches) THEN [ok |-> TRUE, doc |-> doc, at |-> 0]
    ELSE LET r == ApplyOp(doc, patches[i]) IN
         PatchSkipping(IF r.ok THEN r.doc ELSE doc, patches, i + 1)

apply_patches_skipping(existing_data, patches) ==
    PatchSkipping(existing_data, patches, 1)

\* Faulty variant: the operations are applied last to first.
apply_patches_reversed(existing_data, patches) ==
    IF patches = <<>> THEN [ok |-> TRUE, doc |-> existing_data, at |-> 0]
    ELSE PatchFrom(existing_data,
                   [i \in 1..Len(patches) |-> patches[Len(patches) + 1 - i]], 1)

\* apply_patches_to_data(existing_data, patches)
apply_patches_to_data(existing_data, patches) ==
    IF patches = <<>> THEN [ok |-> TRUE, doc |-> existing_data, at |-> 0]
    ELSE PatchFrom(existing_data, patches, 1)

(***************************************************************************)
(* The three tools.  st is agent.state["current_extraction"] (None or      *)
(* Some(mapping)).  A tool that raises leaves an error result in the tool  *)
(* exchange; the result the model sees is [status, n].                     *)
(***************************************************************************)
ToolResult(st, status, n) == [state |-> st, status |-> status, n |-> n]


\* Faulty variant: the fields of a previous extraction are kept.
extraction_tool_merge(st, extraction) ==
    IF IsValid(extraction)
    THEN LET new == ModelDump(extraction)
             old == IF IsNone(st) THEN EmptyDict ELSE st[1]
         IN ToolResult(Some([k \in DOMAIN old \cup DOMAIN new |->
                                IF k \in DOMAIN old THEN old[k] ELSE new[k]]),
                       "success", 0)
    ELSE ToolResult(st, "validation_error", 0)

\* Faulty variant: the extraction is stored as given, without the validator.
extraction_tool_unvalidated(st, extraction) ==
    ToolResult(Some(extraction), "success", 0)

\* extraction_tool(extraction, agent)
extraction_tool(st, extraction) ==
    IF IsValid(extraction)
    THEN ToolResult(Some(ModelDump(extraction)), "success", 0)
    ELSE ToolResult(st, "validation_error", 0)


\* Faulty variant: without a current extraction an empty object is patched.
apply_json_patches_from_empty(st, patches) ==
    LET patched == apply_patches_to_data(IF Truthy(st) THEN st[1] ELSE EmptyDict, patches) IN
    IF ~patched.ok THEN ToolResult(st, "patch_error", patched.at)
    ELSE IF ~IsValid(patched.doc) THEN ToolResult(st, "validation_error", 0)
    ELSE ToolResult(Some(ModelDump(patched.doc)), "success", Len(patches))

\* Faulty variant: the patched object is stored before the validator has seen it.
apply_json_patches_store_first(st, patches) ==
    IF ~Truthy(st) THEN ToolResult(st, "no_current_extraction", 0)
    ELSE LET patched == apply_patches_to_data(st[1], patches) IN
         IF ~patched.ok THEN ToolResult(st, "patch_error", patched.at)
         ELSE IF ~IsValid(patched.doc)
              THEN ToolResult(Some(patched.doc), "validation_error", 0)
         ELSE ToolResult(Some(ModelDump(patched.doc)), "success", Len(patches))

\* apply_json_patches(patches, agent)
apply_json_patches(st, patches) ==
    IF ~Truthy(st) THEN ToolResult(st, "no_current_extraction", 0)
    ELSE LET patched == apply_patches_to_data(st[1], patches) IN
         IF ~patched.ok THEN ToolResult(st, "patch_error", patched.at)
         ELSE IF ~IsValid(patched.doc) THEN ToolResult(st, "validation_error", 0)
         ELSE ToolResult(Some(ModelDump(patched.doc)), "success", Len(patches))


\* Faulty variant: viewing takes the extraction out of the state.
view_existing_extraction_clearing(st) ==
    [state |-> None, status |-> "viewed", n |-> 0, value |-> st]

\* view_existing_extraction(agent): value is what the tool returns
view_existing_extraction(st) ==
    [state |-> st, status |-> "viewed", n |-> 0, value |-> st]

(***************************************************************************)
(* Inputs: what the model may pass to the tools.                           *)
(***************************************************************************)
Jane == [age |-> IntV(34), name |-> StrV("Jane"), rows |-> ListV(<<>>)]

InputRecords ==
    { Jane,
      \* numeric string for age and a key outside the schema: accepted, coerced
      [age |-> StrV("35"), name |-> StrV("Jane"), rows |-> ListV(<<IntV(1)>>),
       extra |-> StrV("x")],
      \* a required field is missing
      [name |-> StrV("Jane")],
      \* a field of the wrong type
      [age |-> IntV(34), name |-> IntV(35), rows |-> ListV(<<>>)] }

Op(o, p, v) == [op |-> o, path |-> p, value |-> v]

PatchOps ==
    { Op("replace", <<"age">>, IntV(35)),
      Op("replace", <<"name">>, IntV(34)),
      Op("remove", <<"missing", "0">>, IntV(0)),
      Op("replace", <<"missing">>, IntV(1)),
      Op("add", <<"rows", "-">>, IntV(1)),
      Op("remove", <<"rows", "0">>, IntV(0)),
      Op("replace", <<"age", "0">>, IntV(35)) }

PatchSets == UNION { [1..k -> PatchOps] : k \in 0..MaxPatchLen }

\* the list field stays within the model's bound
WithinRows(st) ==
    IF IsNone(st) THEN TRUE
    ELSE IF "rows" \notin DOMAIN st[1] THEN TRUE
    ELSE Len(st[1]["rows"].l) <= MaxRows

(***************************************************************************)
(* Gateway outcomes.  An error is its type name and the words of str(e).   *)
(***************************************************************************)
Err(kind, msg) == [kind |-> kind, msg |-> msg]

NoError == Err("", <<>>)

\* The four network error kinds go through one membership test; two of them
\* are drawn here.
GatewayErrors ==
    { Err("ProtocolError", <<"boom">>),
      Err("IncompleteRead", <<"boom">>),
      Err("ClientError", <<"AccessDenied">>),
      Err("ClientError", <<"Throttling", "Connection", "pool", "full">>),
      Err("RuntimeError", <<"Response", "ended", "prematurely">>),
      Err("RuntimeError", <<"connection", "aborted">>) }

\* `words` in msg (a contiguous, case-sensitive occurrence)
Contains(msg, words) ==
    \E i \in 0..(Len(msg) - Len(words)) :
        \A j \in 1..Len(words) : msg[i + j] = words[j]


\* Faulty variant: every error is retried.
IsRetryable_any(e) == TRUE

\* is_retryable
IsRetryable(e) ==
    \/ e.kind \in {"ProtocolError", "ConnectionError", "ReadTimeoutError", "IncompleteRead"}
    \/ Contains(e.msg, <<"Response", "ended", "prematurely">>)
    \/ Contains(e.msg, <<"Connection">>)

\* max_retries: the caller's argument, and from line 582 on the local of the
\* outer loop
VARIABLE max_retries

\* max_retries = 3 of the outer loop
OuterMaxRetries == 3

\* retry_delay = 2 seconds
InitialRetryDelay == 2


\* is_last_attempt
\* Faulty variant: no attempt is taken to be the last one.
IsLastAttempt_never(attempt) == FALSE

IsLastAttempt(attempt) == attempt = max_retries - 1

\* the handler retries (sleeps and continues) rather than raising
RetryAfter(e, attempt) == IsRetryable(e) /\ ~IsLastAttempt(attempt)


\* Faulty variant: the delay is not doubled.
NextRetryDelay_constant(delay) == delay

\* retry_delay *= 2
NextRetryDelay(delay) == delay * 2


\* Faulty variant: every error is wrapped, a ClientError too.
RaisedError_wrap_all(e) ==
    Err("ValueError", <<"Agent", "invocation", "failed:">> \o e.msg)

\* what the except block raises: a ClientError as it is, anything else wrapped
RaisedError(e) ==
    IF e.kind = "ClientError" THEN e
    ELSE Err("ValueError", <<"Agent", "invocation", "failed:">> \o e.msg)

(***************************************************************************)
(* Token usage.  A response reports accumulated_usage, a mapping that may  *)
(* lack keys; token_usage has the five counters.                           *)
(***************************************************************************)
UsageKeys ==
    {"inputTokens", "outputTokens", "totalTokens",
     "cacheReadInputTokens", "cacheWriteInputTokens"}

ZeroUsage == [k \in UsageKeys |-> 0]

UsageReports ==
    { [inputTokens |-> 10, outputTokens |-> 5, totalTokens |-> 15,
       cacheReadInputTokens |-> 2, cacheWriteInputTokens |-> 1],
      [inputTokens |-> 3, outputTokens |-> 1, totalTokens |-> 4],
      EmptyDict }

\* accumulated_usage.get(key, 0)
UsageGet(rep, key) == IF key \in DOMAIN rep THEN rep[key] ELSE 0


\* Faulty variant: the counters are overwritten instead of added to.
AccumulateUsage_overwrite(usage, rep) == [k \in UsageKeys |-> UsageGet(rep, k)]

\* token_usage[key] += accumulated_usage.get(key, 0), for every key
AccumulateUsage(usage, rep) == [k \in UsageKeys |-> usage[k] + UsageGet(rep, k)]


\* Faulty variant: the state is returned without the validator.
ValidateExtraction_skip(m) == [ok |-> TRUE, result |-> Some(m)]

\* data_format(**current_extraction) of the post-exchange check
ValidateExtraction(m) ==
    IF IsValid(m) THEN [ok |-> TRUE, result |-> Some(ModelDump(m))]
    ELSE [ok |-> FALSE, result |-> None]

(***************************************************************************)
(* Model configuration.  A model identifier is the sequence of its pieces  *)
(* ("us.anthropic.claude-sonnet-4-..." is <<"us.", "anthropic.",           *)
(* "claude-", "sonnet-", "4", ...>>); lower() acts piece by piece.         *)
(***************************************************************************)
Lower(tok) ==
    CASE tok = "US." -> "us."
      [] tok = "ANTHROPIC." -> "anthropic."
      [] tok = "CLAUDE-" -> "claude-"
      [] tok = "OPUS-" -> "opus-"
      [] OTHER -> tok

LowerId(id) == [i \in 1..Len(id) |-> Lower(id[i])]

ModelIds ==
    { <<"us.", "anthropic.", "claude-", "sonnet-", "4", "-20250514-v1:0">>,
      <<"US.", "ANTHROPIC.", "CLAUDE-", "OPUS-", "4", "-1">>,
      <<"anthropic.", "claude-", "haiku-", "4", "-5">>,
      <<"anthropic.", "claude-", "3", "-5-", "sonnet-", "v2">>,
      <<"us.", "amazon.", "nova-pro", "-v1:0">>,
      <<"amazon.", "nova-lite", "-claude-", "3">>,
      \* an identifier of all three named classes at once
      <<"nova-micro", ".", "claude-", "opus-", "4", ".", "claude-", "3">>,
      <<"amazon.", "titan">> }

DefaultModelId == <<"us.", "anthropic.", "claude-", "sonnet-", "4", "-20250514-v1:0">>

\* re.search(r"claude-(opus|sonnet|haiku)-4", model_id_lower)
MatchesClaude4(id) ==
    \E i \in 1..(Len(id) - 2) :
        /\ id[i] = "claude-"
        /\ id[i + 1] \in {"opus-", "sonnet-", "haiku-"}
        /\ id[i + 2] = "4"

\* any(nova in model_id_lower for nova in [...])
MatchesNova(id) ==
    \E i \in 1..Len(id) : id[i] \in {"nova-premier", "nova-pro", "nova-lite", "nova-micro"}

\* Faulty variant: the classes are tested least specific first.
ModelMax_claude3_first(model_id) ==
    LET id == LowerId(model_id) IN
    IF Contains(id, <<"claude-", "3">>) THEN 8192
    ELSE IF MatchesNova(id) THEN 10000
    ELSE IF MatchesClaude4(id) THEN 64000
    ELSE 4096

\* model_max
ModelMax(model_id) ==
    LET id == LowerId(model_id) IN
    IF MatchesClaude4(id) THEN 64000
    ELSE IF MatchesNova(id) THEN 10000
    ELSE IF Contains(id, <<"claude-", "3">>) THEN 8192
    ELSE 4096


\* Faulty variant: the caller's value is used without the cap.
MaxOutputTokens_uncapped(requested, model_max) ==
    IF ~IsNone(requested) THEN requested[1] ELSE model_max

\* max_output_tokens, from the caller's max_tokens (None or Some(v))
MaxOutputTokens(requested, model_max) ==
    IF ~IsNone(requested)
    THEN IF requested[1] > model_max THEN model_max ELSE requested[1]
    ELSE model_max

\* The allow-list imported from idp_common.bedrock.client: full identifiers of
\* models with prompt caching, Claude and Nova ones.
CACHEPOINT_SUPPORTED_MODELS ==
    { <<"us.", "anthropic.", "claude-", "sonnet-", "4", "-20250514-v1:0">>,
      <<"us.", "amazon.", "nova-pro", "-v1:0">> }

\* "anthropic.claude" in model_id or "us.anthropic.claude" in model_id
supports_tool_caching(id) ==
    \/ Contains(id, <<"anthropic.", "claude-">>)
    \/ Contains(id, <<"us.", "anthropic.", "claude-">>)

\* model_id in CACHEPOINT_SUPPORTED_MODELS
supports_prompt_caching(id) == id \in CACHEPOINT_SUPPORTED_MODELS

\* Faulty variant: tool caching is decided without looking at prompt caching.
ModelConfig_tools_unnested(id, requested, retries) ==
    [max_tokens |-> MaxOutputTokens(requested, ModelMax(id)),
     max_attempts |-> retries,
     cache_prompt |-> IF supports_prompt_caching(id) THEN Some("default") ELSE None,
     cache_tools |-> IF supports_tool_caching(id)
                     THEN Some("default") ELSE None]

\* model_config: max_tokens, max_attempts of the transport's retries, and the
\* two caching keys where they are set
ModelConfig(id, requested, retries) ==
    [max_tokens |-> MaxOutputTokens(requested, ModelMax(id)),
     max_attempts |-> retries,
     cache_prompt |-> IF supports_prompt_caching(id) THEN Some("default") ELSE None,
     cache_tools |-> IF supports_prompt_caching(id) /\ supports_tool_caching(id)
                     THEN Some("default") ELSE None]

MaxTokensInputs ==
    {None} \cup { Some(v) : v \in {-1, 0, 1, 4096, 4097, 8192, 8193, 10000, 10001, 64000, 64001} }

(***************************************************************************)
(* Instruction text and metering.  A text is the sequence of its pieces.   *)
(***************************************************************************)
SYSTEM_PROMPT == <<"SYSTEM_PROMPT">>

\* schema_json = json.dumps(data_format.model_json_schema(), indent=2)
SchemaJson == <<"schema_json">>

\* Python truthiness of an optional text: None and "" are falsy
TextGiven(o) == ~IsNone(o) /\ o[1] # <<>>

\* what the callers of the model pass as system_prompt and custom_instruction
TextInputs == { None, Some(<<>>), Some(<<"caller text">>) }


\* Faulty variant: a custom instruction takes the place of the system prompt.
InstructionText_custom_replaces(sp, ci) ==
    LET base == IF TextGiven(sp) THEN sp[1] ELSE SYSTEM_PROMPT
        final == IF TextGiven(ci) THEN ci[1] ELSE base
    IN final \o <<"\n\nExpected Schema:\n">> \o SchemaJson

\* the system_prompt the Agent is created with
InstructionText(sp, ci) ==
    LET base == IF TextGiven(sp) THEN sp[1] ELSE SYSTEM_PROMPT
        final == IF TextGiven(ci)
                 THEN base \o <<"\n\nCustom Instructions for this specific task: ">> \o ci[1]
                 ELSE base
    IN final \o <<"\n\nExpected Schema:\n">> \o SchemaJson

ContextInputs == { "Extraction", "Assessment" }


\* Faulty variant: the key is the model identifier alone.
Metering_by_model(ctx, id, usage) == [k \in {id} |-> usage]

\* metering={f"{context}/bedrock/{model_id}": BedrockUsage(**token_usage)}
Metering(ctx, id, usage) ==
    [k \in {<<ctx, "/bedrock/">> \o id} |-> [c \in DOMAIN usage |-> usage[c]]]

(***************************************************************************)
(* The invocation: structured_output_async.                                *)
(***************************************************************************)
VARIABLES
    pc,                 \* position of structured_output_async
    model_id,           \* argument
    max_tokens,         \* argument: None or Some(v)
    existing_data,      \* argument: None or Some(dump of the baseline record)
    review_agent,       \* argument
    model_config,       \* configuration handed to BedrockModel
    agent_state,        \* agent.state["current_extraction"]
    attempt,            \* index of the outer retry loop
    retry_delay,        \* delay of the next backoff sleep
    sleeps,             \* delays slept so far, in order
    gateway_calls,      \* agent.invoke_async calls of the first exchange
    gateway_log,        \* how each of them ended: an error, or Ok
    response,           \* None or Some(usage the first exchange reported)
    review_calls,       \* agent.invoke_async calls of the review exchange
    review_request,     \* what the review call was given as its prompt
    review_response,    \* None or Some(usage the review exchange reported)
    token_usage,        \* the accumulator
    current_extraction, \* local snapshot taken after the first exchange
    result,             \* None or Some(validated record)
    outcome,            \* what the invocation gave its caller
    tool_calls,         \* tool calls issued so far
    last_tool,          \* the latest tool call and its result
    system_prompt,      \* argument: None or Some(text)
    custom_instruction, \* argument: None or Some(text)
    context,            \* argument
    agent_system_prompt, \* system_prompt the Agent was created with
    metering,           \* None or Some(the metering mapping returned)
    caller_in_loop,     \* structured_output: the caller is inside a running event loop
    sync_pc,            \* structured_output: position of the calling thread
    thread_result,      \* structured_output: nonlocal result of run_in_new_loop
    thread_exception,   \* structured_output: nonlocal exception of run_in_new_loop
    sync_outcome        \* what structured_output gave its caller

\* analyze_stepfunction_execution and _analyze_execution_timeline
VARIABLES
    sf_pc,              \* position in analyze_stepfunction_execution
    sf_history,         \* the execution's history, oldest event first
    events,             \* history_response["events"], as fetched
    timeline_analysis   \* what _analyze_execution_timeline returned

timeline_vars == <<sf_pc, sf_history, events, timeline_analysis>>

\* analyze_recent_system_errors
VARIABLES
    er_pc,                  \* position in analyze_recent_system_errors
    config,                 \* config.get("max_log_events"), None without the key
    max_log_events,         \* the argument, from line 139 on the effective limit
    pattern_index,          \* position of the loop over the error patterns
    searched,               \* the searches made by the loop, in order
    all_log_events,
    total_events_collected,
    analysis                \* the dictionary returned

errors_vars ==
    <<er_pc, config, max_log_events, pattern_index, searched, all_log_events,
      total_events_collected, analysis>>

analyzer_vars == <<timeline_vars, errors_vars>>

vars ==
    <<pc, model_id, max_tokens, existing_data, review_agent, model_config,
      agent_state, attempt, retry_delay, sleeps, gateway_calls, gateway_log,
      response, review_calls, review_request, review_response, token_usage,
      current_extraction, result, outcome, tool_calls, last_tool,
      system_prompt, custom_instruction, context, agent_system_prompt, metering,
      caller_in_loop, sync_pc, thread_result, thread_exception, sync_outcome,
      max_retries, analyzer_vars>>

inputs ==
    <<model_id, max_tokens, existing_data, review_agent,
      system_prompt, custom_instruction, context>>

sync_vars == <<caller_in_loop, sync_pc, thread_result, thread_exception, sync_outcome>>

retry_vars == <<attempt, retry_delay, sleeps, gateway_calls, gateway_log>>

review_vars == <<review_calls, review_request, review_response>>

Ok == Err("ok", <<>>)

Running == [kind |-> "running", record |-> None, error |-> NoError, stage |-> ""]

Returned(rec) == [kind |-> "returned", record |-> rec, error |-> NoError, stage |-> "return"]

Raised(e, stage) == [kind |-> "raised", record |-> None, error |-> e, stage |-> stage]

ValidationFailure ==
    Err("ValueError", <<"Failed", "to", "validate", "extraction", "against", "schema">>)

NoStructuredOutput ==
    Err("ValueError", <<"Failed", "to", "generate", "valid", "structured", "output.">>)

NoTool == [name |-> "", status |-> "", n |-> 0]

ExistingInputs ==
    { None,
      Some(Jane),
      \* a baseline of another model class: no age, no rows
      Some([name |-> StrV("Jane")]),
      \* a baseline of a model class without fields
      Some(EmptyDict) }

InitWith(ids, tokens) ==
    /\ pc = "init"
    /\ model_id \in ids
    /\ max_tokens \in tokens
    /\ existing_data \in ExistingInputs
    /\ review_agent \in BOOLEAN
    /\ model_config = [max_tokens |-> 0, max_attempts |-> 0,
                       cache_prompt |-> None, cache_tools |-> None]
    /\ agent_state = None
    /\ attempt = 0
    /\ retry_delay = 0
    /\ sleeps = <<>>
    /\ gateway_calls = 0
    /\ gateway_log = <<>>
    /\ response = None
    /\ review_calls = 0
    /\ review_request = ""
    /\ review_response = None
    /\ token_usage = ZeroUsage
    /\ current_extraction = None
    /\ result = None
    /\ outcome = Running
    /\ tool_calls = 0
    /\ last_tool = NoTool

\* max_retries: int = 7
DefaultMaxRetries == 7

\* values a caller may pass as max_retries
MaxRetriesInputs == {0, 1, 3, DefaultMaxRetries}

\* the texts and the context label the caller passes
InitOptions(prompts, instructions, contexts) ==
    /\ system_prompt \in prompts
    /\ custom_instruction \in instructions
    /\ context \in contexts
    /\ agent_system_prompt = <<>>
    /\ metering = None

NoOutcome == [kind |-> "running", value |-> None, error |-> NoError]

\* structured_output: not entered (start = "none") or about to run ("start")
InitCaller(start, loops) ==
    /\ caller_in_loop \in loops
    /\ sync_pc = start
    /\ thread_result = None
    /\ thread_exception = None
    /\ sync_outcome = NoOutcome

\* structured_output_async called directly, with the default texts
\* no Step Function execution is being analysed
NoTimeline ==
    /\ sf_pc = "idle"
    /\ sf_history = <<>>
    /\ events = <<>>
    /\ timeline_analysis = None

\* no system-wide error analysis is running
NoErrorAnalysis ==
    /\ er_pc = "idle"
    /\ config = None
    /\ max_log_events = 0
    /\ pattern_index = 0
    /\ searched = <<>>
    /\ all_log_events = <<>>
    /\ total_events_collected = 0
    /\ analysis = None

Init ==
    /\ InitWith({DefaultModelId}, {None})
    /\ max_retries = DefaultMaxRetries
    /\ InitOptions({None}, {None}, {"Extraction"})
    /\ InitCaller("none", {FALSE})
    /\ NoTimeline
    /\ NoErrorAnalysis

\* Faulty variant: the baseline is not put into the agent's state.
Prepare_no_preload ==
    /\ pc = "init"
    /\ model_config' = ModelConfig(model_id, max_tokens, max_retries)
    /\ max_retries' = OuterMaxRetries
    /\ agent_system_prompt' = InstructionText(system_prompt, custom_instruction)
    /\ token_usage' = ZeroUsage
    /\ agent_state' = None
    /\ attempt' = 0
    /\ retry_delay' = InitialRetryDelay
    /\ pc' = "ready"
    /\ UNCHANGED <<analyzer_vars, inputs, sync_vars, metering, sleeps, gateway_calls, gateway_log, response, review_vars,
                   current_extraction, result, outcome, tool_calls, last_tool>>

\* Faulty variant: the outer loop runs as often as the caller's max_retries says.
Prepare_caller_retries ==
    /\ pc = "init"
    /\ model_config' = ModelConfig(model_id, max_tokens, max_retries)
    /\ max_retries' = max_retries
    /\ agent_system_prompt' = InstructionText(system_prompt, custom_instruction)
    /\ token_usage' = ZeroUsage
    /\ agent_state' = IF IsNone(existing_data) THEN None ELSE Some(existing_data[1])
    /\ attempt' = 0
    /\ retry_delay' = InitialRetryDelay
    /\ pc' = "ready"
    /\ UNCHANGED <<analyzer_vars, inputs, sync_vars, metering, sleeps, gateway_calls, gateway_log, response, review_vars,
                   current_extraction, result, outcome, tool_calls, last_tool>>

\* Everything up to the retry loop: the model configuration, the agent with
\* an empty state, the token accumulator, the preload of the baseline.
Prepare ==
    /\ pc = "init"
    /\ model_config' = ModelConfig(model_id, max_tokens, max_retries)
    /\ max_retries' = OuterMaxRetries
    /\ agent_system_prompt' = InstructionText(system_prompt, custom_instruction)
    /\ token_usage' = ZeroUsage
    /\ agent_state' = IF IsNone(existing_data) THEN None ELSE Some(existing_data[1])
    /\ attempt' = 0
    /\ retry_delay' = InitialRetryDelay
    /\ pc' = "ready"
    /\ UNCHANGED <<analyzer_vars, inputs, sync_vars, metering, sleeps, gateway_calls, gateway_log, response, review_vars,
                   current_extraction, result, outcome, tool_calls, last_tool>>

\* response = await agent.invoke_async(prompt_content), at the loop head
InvokeAgent ==
    /\ pc = "ready"
    /\ attempt < max_retries
    /\ gateway_calls' = gateway_calls + 1
    /\ pc' = "invoking"
    /\ UNCHANGED <<analyzer_vars, inputs, max_retries, sync_vars, metering, model_config, agent_system_prompt, agent_state, attempt, retry_delay, sleeps,
                   gateway_log, response, review_vars, token_usage,
                   current_extraction, result, outcome, tool_calls, last_tool>>

\* Faulty variant: a tool call that reports an error ends the invocation.
ToolStep_fatal(name, r) ==
    /\ pc \in {"invoking", "reviewing"}
    /\ tool_calls < MaxToolCalls
    /\ WithinRows(r.state)
    /\ agent_state' = r.state
    /\ last_tool' = [name |-> name, status |-> r.status, n |-> r.n]
    /\ tool_calls' = tool_calls + 1
    /\ IF r.status \in {"patch_error", "validation_error"}
       THEN /\ pc' = "done"
            /\ outcome' = Raised(ValidationFailure, "exchange")
       ELSE UNCHANGED <<pc, outcome>>
    /\ UNCHANGED <<analyzer_vars, inputs, max_retries, sync_vars, metering, model_config, agent_system_prompt, retry_vars, response, review_vars,
                   token_usage, current_extraction, result>>

\* A tool call made by the model while an exchange is running.
ToolStep(name, r) ==
    /\ pc \in {"invoking", "reviewing"}
    /\ tool_calls < MaxToolCalls
    /\ WithinRows(r.state)
    /\ agent_state' = r.state
    /\ last_tool' = [name |-> name, status |-> r.status, n |-> r.n]
    /\ tool_calls' = tool_calls + 1
    /\ UNCHANGED <<analyzer_vars, pc, inputs, max_retries, sync_vars, metering, model_config, agent_system_prompt, retry_vars, response, review_vars,
                   token_usage, current_extraction, result, outcome>>

ToolExtraction(extraction) ==
    ToolStep("extraction_tool", extraction_tool(agent_state, extraction))

ToolApplyPatches(patches) ==
    ToolStep("apply_json_patches", apply_json_patches(agent_state, patches))

ToolView == ToolStep("view_existing_extraction", view_existing_extraction(agent_state))

\* Faulty variant: a retry starts again from the preloaded state.
GatewayRaises_reset_state(e) ==
    /\ pc = "invoking"
    /\ gateway_log' = Append(gateway_log, e)
    /\ IF RetryAfter(e, attempt)
       THEN /\ sleeps' = Append(sleeps, retry_delay)
            /\ retry_delay' = NextRetryDelay(retry_delay)
            /\ attempt' = attempt + 1
            /\ pc' = "ready"
            /\ UNCHANGED outcome
       ELSE /\ outcome' = Raised(RaisedError(e), "exchange")
            /\ pc' = "done"
            /\ UNCHANGED <<sleeps, retry_delay, attempt>>
    /\ agent_state' = IF pc' = "ready" THEN existing_data ELSE agent_state
    /\ UNCHANGED <<analyzer_vars, inputs, max_retries, sync_vars, metering, model_config, agent_system_prompt, gateway_calls, response,
                   review_vars, token_usage, current_extraction, result,
                   tool_calls, last_tool>>

\* The first exchange raised e: the except block of the retry loop.
GatewayRaises(e) ==
    /\ pc = "invoking"
    /\ gateway_log' = Append(gateway_log, e)
    /\ IF RetryAfter(e, attempt)
       THEN /\ sleeps' = Append(sleeps, retry_delay)
            /\ retry_delay' = NextRetryDelay(retry_delay)
            /\ attempt' = attempt + 1
            /\ pc' = "ready"
            /\ UNCHANGED outcome
       ELSE /\ outcome' = Raised(RaisedError(e), "exchange")
            /\ pc' = "done"
            /\ UNCHANGED <<sleeps, retry_delay, attempt>>
    /\ UNCHANGED <<analyzer_vars, inputs, max_retries, sync_vars, metering, model_config, agent_system_prompt, agent_state, gateway_calls, response,
                   review_vars, token_usage, current_extraction, result,
                   tool_calls, last_tool>>

\* Faulty variant: the review follows a validated extraction too.
GatewayReturns_review_after_valid(u) ==
    /\ pc = "invoking"
    /\ gateway_log' = Append(gateway_log, Ok)
    /\ response' = Some(u)
    /\ token_usage' = AccumulateUsage(token_usage, u)
    /\ current_extraction' = agent_state
    /\ IF Truthy(agent_state) /\ ~ValidateExtraction(agent_state[1]).ok
       THEN /\ outcome' = Raised(ValidationFailure, "validate")
            /\ pc' = "done"
            /\ UNCHANGED <<result, review_calls, review_request>>
       ELSE IF review_agent
       THEN /\ result' = IF Truthy(agent_state)
                         THEN ValidateExtraction(agent_state[1]).result ELSE result
            /\ review_calls' = review_calls + 1
            /\ review_request' = "None"
            /\ pc' = "reviewing"
            /\ UNCHANGED outcome
       ELSE /\ result' = IF Truthy(agent_state)
                         THEN ValidateExtraction(agent_state[1]).result ELSE result
            /\ outcome' = IF Truthy(agent_state)
                          THEN Returned(ValidateExtraction(agent_state[1]).result)
                          ELSE Raised(NoStructuredOutput, "final")
            /\ pc' = "done"
            /\ UNCHANGED <<review_calls, review_request>>
    /\ UNCHANGED <<analyzer_vars, inputs, max_retries, sync_vars, model_config, agent_system_prompt, agent_state, attempt, retry_delay, sleeps,
                   gateway_calls, review_response, tool_calls, last_tool>>
    /\ metering' = IF outcome'.kind = "returned"
                   THEN Some(Metering(context, model_id, token_usage'))
                   ELSE None

\* Faulty variant: a state the validator rejects is sent to the review
\* exchange instead of ending the invocation.
GatewayReturns_review_on_invalid(u) ==
    /\ pc = "invoking"
    /\ gateway_log' = Append(gateway_log, Ok)
    /\ response' = Some(u)
    /\ token_usage' = AccumulateUsage(token_usage, u)
    /\ current_extraction' = agent_state
    /\ IF Truthy(agent_state) /\ IsValid(agent_state[1])
       THEN /\ result' = Some(ModelDump(agent_state[1]))
            /\ outcome' = Returned(Some(ModelDump(agent_state[1])))
            /\ pc' = "done"
            /\ UNCHANGED <<review_calls, review_request>>
       ELSE IF review_agent
       THEN /\ review_calls' = review_calls + 1
            /\ review_request' = "None"
            /\ pc' = "reviewing"
            /\ UNCHANGED <<result, outcome>>
       ELSE /\ outcome' = Raised(NoStructuredOutput, "final")
            /\ pc' = "done"
            /\ UNCHANGED <<result, review_calls, review_request>>
    /\ UNCHANGED <<analyzer_vars, inputs, max_retries, sync_vars, model_config, agent_system_prompt, agent_state, attempt, retry_delay, sleeps,
                   gateway_calls, review_response, tool_calls, last_tool>>
    /\ metering' = IF outcome'.kind = "returned"
                   THEN Some(Metering(context, model_id, token_usage'))
                   ELSE None

\* The first exchange returned a response reporting usage u: break, token
\* accounting, the check of the state, then return, raise, or the review call.
GatewayReturns(u) ==
    /\ pc = "invoking"
    /\ gateway_log' = Append(gateway_log, Ok)
    /\ response' = Some(u)
    /\ token_usage' = AccumulateUsage(token_usage, u)
    /\ current_extraction' = agent_state
    /\ IF Truthy(agent_state)
       THEN LET v == ValidateExtraction(agent_state[1]) IN
            /\ result' = v.result
            /\ outcome' = IF v.ok THEN Returned(v.result)
                          ELSE Raised(ValidationFailure, "validate")
            /\ pc' = "done"
            /\ UNCHANGED <<review_calls, review_request>>
       ELSE IF review_agent
       THEN /\ review_calls' = review_calls + 1
            \* review_prompt = prompt_content.append(...) is None
            /\ review_request' = "None"
            /\ pc' = "reviewing"
            /\ UNCHANGED <<result, outcome>>
       ELSE /\ outcome' = Raised(NoStructuredOutput, "final")
            /\ pc' = "done"
            /\ UNCHANGED <<result, review_calls, review_request>>
    /\ UNCHANGED <<analyzer_vars, inputs, max_retries, sync_vars, model_config, agent_system_prompt, agent_state, attempt, retry_delay, sleeps,
                   gateway_calls, review_response, tool_calls, last_tool>>
    /\ metering' = IF outcome'.kind = "returned"
                   THEN Some(Metering(context, model_id, token_usage'))
                   ELSE None

\* Faulty variant: an error of the review is wrapped like one of the first exchange.
ReviewRaises_wrapped(e) ==
    /\ pc = "reviewing"
    /\ outcome' = Raised(RaisedError(e), "review")
    /\ pc' = "done"
    /\ UNCHANGED <<analyzer_vars, inputs, max_retries, sync_vars, metering, model_config, agent_system_prompt, agent_state, retry_vars, response,
                   review_vars, token_usage, current_extraction, result,
                   tool_calls, last_tool>>

\* The review exchange raised e: nothing catches it.
ReviewRaises(e) ==
    /\ pc = "reviewing"
    /\ outcome' = Raised(e, "review")
    /\ pc' = "done"
    /\ UNCHANGED <<analyzer_vars, inputs, max_retries, sync_vars, metering, model_config, agent_system_prompt, agent_state, retry_vars, response,
                   review_vars, token_usage, current_extraction, result,
                   tool_calls, last_tool>>

\* Faulty variant: the review always ends with the final error, also when it
\* left a record the validator accepted.
ReviewReturns_raise_always(u) ==
    /\ pc = "reviewing"
    /\ review_response' = Some(u)
    /\ token_usage' = AccumulateUsage(token_usage, u)
    /\ LET v == IF agent_state # current_extraction /\ ~IsNone(agent_state)
                THEN ValidateExtraction(agent_state[1])
                ELSE [ok |-> FALSE, result |-> result]
       IN /\ result' = v.result
          /\ outcome' = Raised(NoStructuredOutput, "final")
    /\ pc' = "done"
    /\ UNCHANGED <<analyzer_vars, inputs, max_retries, sync_vars, model_config, agent_system_prompt, agent_state, retry_vars, response,
                   review_calls, review_request, current_extraction,
                   tool_calls, last_tool>>
    /\ metering' = IF outcome'.kind = "returned"
                   THEN Some(Metering(context, model_id, token_usage'))
                   ELSE None

\* The review exchange returned: token accounting, the comparison with the
\* snapshot, the validation of a changed state, then return or raise.
ReviewReturns(u) ==
    /\ pc = "reviewing"
    /\ review_response' = Some(u)
    /\ token_usage' = AccumulateUsage(token_usage, u)
    /\ LET v == IF agent_state # current_extraction /\ ~IsNone(agent_state)
                THEN ValidateExtraction(agent_state[1])
                ELSE [ok |-> FALSE, result |-> result]
       IN /\ result' = v.result
          /\ outcome' = IF ~IsNone(v.result) /\ ~IsNone(response)
                        THEN Returned(v.result)
                        ELSE Raised(NoStructuredOutput, "final")
    /\ pc' = "done"
    /\ UNCHANGED <<analyzer_vars, inputs, max_retries, sync_vars, model_config, agent_system_prompt, agent_state, retry_vars, response,
                   review_calls, review_request, current_extraction,
                   tool_calls, last_tool>>
    /\ metering' = IF outcome'.kind = "returned"
                   THEN Some(Metering(context, model_id, token_usage'))
                   ELSE None

(***************************************************************************)
(* structured_output: the blocking wrapper.  The calling thread is at       *)
(* sync_pc; the invocation itself is structured_output_async above, run on *)
(* a worker thread with a new event loop or under asyncio.run.             *)
(***************************************************************************)
AsyncioRunInsideLoop ==
    Err("RuntimeError", <<"asyncio.run()", "cannot", "be", "called", "from",
                          "a", "running", "event", "loop">>)

SyncReturned(v) == [kind |-> "returned", value |-> v, error |-> NoError]

SyncRaised(e) == [kind |-> "raised", value |-> None, error |-> e]

\* the tuple structured_output_async returns
ReturnValue == [record |-> outcome.record, metering |-> metering]

\* asyncio.get_running_loop(): inside a loop the worker thread is started and
\* the caller waits in thread.join(); otherwise RuntimeError leads to asyncio.run
SyncStart ==
    /\ sync_pc = "start"
    /\ sync_pc' = IF caller_in_loop THEN "join" ELSE "run"
    /\ UNCHANGED <<analyzer_vars, pc, inputs, max_retries, model_config, agent_system_prompt, metering, agent_state,
                   retry_vars, response, review_vars, token_usage, current_extraction,
                   result, outcome, tool_calls, last_tool,
                   caller_in_loop, thread_result, thread_exception, sync_outcome>>

\* run_in_new_loop comes to its end: result or exception is set, the loop is
\* closed and the worker thread terminates
WorkerEnds ==
    /\ sync_pc = "join"
    /\ pc = "done"
    /\ IF outcome.kind = "returned"
       THEN thread_result' = Some(ReturnValue) /\ UNCHANGED thread_exception
       ELSE thread_exception' = Some(outcome.error) /\ UNCHANGED thread_result
    /\ sync_pc' = "thread_ended"
    /\ UNCHANGED <<analyzer_vars, pc, inputs, max_retries, model_config, agent_system_prompt, metering, agent_state,
                   retry_vars, response, review_vars, token_usage, current_extraction,
                   result, outcome, tool_calls, last_tool,
                   caller_in_loop, sync_outcome>>

\* what the caller does with result and exception once it runs again: raise
\* exception (a RuntimeError is caught by the except clause around it, whose
\* asyncio.run raises inside the running loop), or assert and return result
AfterJoin ==
    IF ~IsNone(thread_exception)
    THEN IF thread_exception[1].kind = "RuntimeError"
         THEN SyncRaised(AsyncioRunInsideLoop)
         ELSE SyncRaised(thread_exception[1])
    ELSE IF IsNone(thread_result)
    THEN SyncRaised(Err("AssertionError", <<>>))
    ELSE SyncReturned(thread_result)


\* Faulty variant: the caller goes on without waiting for the worker thread.
JoinReturns_without_join ==
    /\ sync_pc \in {"join", "thread_ended"}
    /\ sync_outcome' = AfterJoin
    /\ sync_pc' = "returned"
    /\ UNCHANGED <<analyzer_vars, pc, inputs, max_retries, model_config, agent_system_prompt, metering, agent_state,
                   retry_vars, response, review_vars, token_usage, current_extraction,
                   result, outcome, tool_calls, last_tool,
                   caller_in_loop, thread_result, thread_exception>>

\* thread.join() returns, which it does only after the worker thread has ended
JoinReturns ==
    /\ sync_pc = "thread_ended"
    /\ sync_outcome' = AfterJoin
    /\ sync_pc' = "returned"
    /\ UNCHANGED <<analyzer_vars, pc, inputs, max_retries, model_config, agent_system_prompt, metering, agent_state,
                   retry_vars, response, review_vars, token_usage, current_extraction,
                   result, outcome, tool_calls, last_tool,
                   caller_in_loop, thread_result, thread_exception>>

\* asyncio.run(structured_output_async(...)) returns or raises
RunReturns ==
    /\ sync_pc = "run"
    /\ pc = "done"
    /\ sync_outcome' = IF outcome.kind = "returned"
                       THEN SyncReturned(Some(ReturnValue))
                       ELSE SyncRaised(outcome.error)
    /\ sync_pc' = "returned"
    /\ UNCHANGED <<analyzer_vars, pc, inputs, max_retries, model_config, agent_system_prompt, metering, agent_state,
                   retry_vars, response, review_vars, token_usage, current_extraction,
                   result, outcome, tool_calls, last_tool,
                   caller_in_loop, thread_result, thread_exception>>

Next ==
    \/ Prepare
    \/ InvokeAgent
    \/ \E extraction \in InputRecords : ToolExtraction(extraction)
    \/ \E patches \in PatchSets : ToolApplyPatches(patches)
    \/ ToolView
    \/ \E e \in GatewayErrors : GatewayRaises(e)
    \/ \E u \in UsageReports : GatewayReturns(u)
    \/ \E e \in GatewayErrors : ReviewRaises(e)
    \/ \E u \in UsageReports : ReviewReturns(u)

Spec == Init /\ [][Next]_vars

\* The model configuration and the instruction text alone, over every
\* identifier, requested maximum and caller text.
InitCaps ==
    /\ InitWith(ModelIds, MaxTokensInputs)
    /\ max_retries = DefaultMaxRetries
    /\ InitOptions(TextInputs, TextInputs, {"Extraction"})
    /\ InitCaller("none", {FALSE})
    /\ NoTimeline
    /\ NoErrorAnalysis

NextCaps == Prepare

SpecCaps == InitCaps /\ [][NextCaps]_vars

\* The invocation over the values a caller may pass as max_retries, without a
\* baseline.
InitRetry ==
    /\ InitWith({DefaultModelId}, {None})
    /\ existing_data = None
    /\ max_retries \in MaxRetriesInputs
    /\ InitOptions({None}, {None}, {"Extraction"})
    /\ InitCaller("none", {FALSE})
    /\ NoTimeline
    /\ NoErrorAnalysis

SpecRetry == InitRetry /\ [][Next]_vars

\* An exchange that has been started ends: agent.invoke_async returns or
\* raises (the transport has connect and read timeouts and a bounded retry
\* budget of its own).
ExchangeEnds ==
    \/ \E e \in GatewayErrors : GatewayRaises(e)
    \/ \E u \in UsageReports : GatewayReturns(u)

ReviewEnds ==
    \/ \E e \in GatewayErrors : ReviewRaises(e)
    \/ \E u \in UsageReports : ReviewReturns(u)

\* The invocation with the code running on and every exchange ending.
SpecLive ==
    /\ Init
    /\ [][Next]_vars
    /\ WF_vars(Prepare)
    /\ WF_vars(InvokeAgent)
    /\ WF_vars(ExchangeEnds)
    /\ WF_vars(ReviewEnds)

\* The invocation entered through structured_output, from inside and from
\* outside a running event loop, under two context labels, without a baseline.
InitSync ==
    /\ InitWith({DefaultModelId}, {None})
    /\ max_retries = DefaultMaxRetries
    /\ existing_data = None
    /\ InitOptions({None}, {None}, ContextInputs)
    /\ InitCaller("start", BOOLEAN)
    /\ NoTimeline
    /\ NoErrorAnalysis

NextSync ==
    \/ SyncStart
    \/ (sync_pc \in {"join", "run"} /\ Next)
    \/ WorkerEnds
    \/ JoinReturns
    \/ RunReturns

SpecSync == InitSync /\ [][NextSync]_vars

(***************************************************************************)
(* Step Function execution analysis (stepfunction_tools.py).               *)
(***************************************************************************)
\* events of one execution history considered at most
MaxEvents == 3

\* maxResults of get_execution_history
MaxResults == 100

\* max_timeline_events, from the configuration or its fallback
MaxTimelineEvents == 3

\* failure_events of _extract_failure_details
failure_events ==
    {"ExecutionFailed", "TaskFailed", "LambdaFunctionFailed", "TaskTimedOut",
     "ExecutionTimedOut"}

\* dict.get(key, default) on an optional detail
GetOr(v, default) == IF IsNone(v) THEN default ELSE v[1]

\* _extract_failure_details: None for an event that is no failure, otherwise
\* the details of its type with their defaults ("resource" only for TaskFailed,
\* None standing for the key being absent)
extract_failure_details(event) ==
    IF event.type \notin failure_events THEN None
    ELSE IF event.type = "ExecutionFailed" THEN
        Some([error |-> GetOr(event.error, "Unknown execution error"),
              cause |-> GetOr(event.cause, "No cause provided"),
              resource |-> None])
    ELSE IF event.type = "TaskFailed" THEN
        Some([error |-> GetOr(event.error, "Unknown task error"),
              cause |-> GetOr(event.cause, "No cause provided"),
              resource |-> Some("Unknown resource")])
    ELSE IF event.type = "LambdaFunctionFailed" THEN
        Some([error |-> GetOr(event.error, "Lambda function failed"),
              cause |-> GetOr(event.cause, "No cause provided"),
              resource |-> None])
    ELSE
        Some([error |-> event.type,
              cause |-> GetOr(event.cause, "Execution exceeded timeout limit"),
              resource |-> None])

\* the locals of _analyze_execution_timeline before its loop
TimelineStart == [timeline |-> <<>>, failure_point |-> None, last_successful_state |-> None]

\* one iteration of the loop over events
TimelineEvent(acc, event) ==
    LET name == GetOr(event.name, "Unknown")
        entry == [timestamp |-> event.timestamp, type |-> event.type, state |-> name]
        entered == event.type = "StateEntered"
        exited == event.type = "StateExited"
        last == IF entered THEN Some(name) ELSE acc.last_successful_state
        failure_details == extract_failure_details(event)
    IN  [timeline |-> IF entered \/ exited THEN Append(acc.timeline, entry) ELSE acc.timeline,
         last_successful_state |-> last,
         failure_point |->
             IF Truthy(failure_details) /\ ~Truthy(acc.failure_point)
             THEN Some([timestamp |-> event.timestamp,
                        event_type |-> event.type,
                        state |-> last,
                        details |-> failure_details[1]])
             ELSE acc.failure_point]

RECURSIVE TimelineLoop(_, _, _)
\* the loop over events, in the order of the list
TimelineLoop(evs, i, acc) ==
    IF i > Len(evs) THEN acc
    ELSE TimelineLoop(evs, i + 1, TimelineEvent(acc, evs[i]))

\* list[-n:]
LastN(seq, n) ==
    IF n = 0 \/ Len(seq) <= n THEN seq ELSE SubSeq(seq, Len(seq) - n + 1, Len(seq))

\* _analyze_execution_timeline
analyze_execution_timeline(evs) ==
    IF evs = <<>>
    THEN [error |-> Some("No execution events available"),
          timeline |-> <<>>, failure_point |-> None, last_successful_state |-> None]
    ELSE LET acc == TimelineLoop(evs, 1, TimelineStart)
         IN  [error |-> None,
              timeline |-> LastN(acc.timeline, MaxTimelineEvents),
              failure_point |-> acc.failure_point,
              last_successful_state |-> acc.last_successful_state]

\* the events an execution may record, without their timestamps
StateNames == {"OCR", "Extraction"}

HistoryEvent(type, name, error) ==
    [timestamp |-> 0, type |-> type, name |-> name, error |-> error, cause |-> None]

EventInputs ==
    {HistoryEvent("StateEntered", Some(n), None) : n \in StateNames}
    \cup {HistoryEvent("StateExited", Some(n), None) : n \in StateNames}
    \cup {HistoryEvent(t, None, None) : t \in failure_events}
    \cup {HistoryEvent("TaskFailed", None, Some("States.TaskFailed")),
          HistoryEvent("TaskScheduled", None, None)}

\* the histories of at most MaxEvents events, oldest first, stamped in order
Histories ==
    UNION {{[i \in 1..n |-> [h[i] EXCEPT !.timestamp = i]] : h \in [1..n -> EventInputs]} :
           n \in 0..MaxEvents}

\* list(reversed(seq))
Reverse(seq) == [i \in 1..Len(seq) |-> seq[Len(seq) + 1 - i]]

\* get_execution_history(maxResults=100, reverseOrder=True): the most recent
\* events of the history, most recent first
get_execution_history(history) ==
    SubSeq(Reverse(history), 1, IF Len(history) < MaxResults THEN Len(history) ELSE MaxResults)

\* analyze_stepfunction_execution fetches the history
GetExecutionHistory ==
    /\ sf_pc = "start"
    /\ events' = get_execution_history(sf_history)
    /\ sf_pc' = "fetched"
    /\ UNCHANGED <<sf_history, timeline_analysis>>
    /\ UNCHANGED <<errors_vars, pc, inputs, max_retries, sync_vars, metering, model_config,
                   agent_system_prompt, agent_state, retry_vars, response, review_vars,
                   token_usage, current_extraction, result, outcome, tool_calls, last_tool>>

\* analyze_stepfunction_execution analyses what it fetched
AnalyzeTimeline ==
    /\ sf_pc = "fetched"
    /\ timeline_analysis' = Some(analyze_execution_timeline(events))
    /\ sf_pc' = "done"
    /\ UNCHANGED <<sf_history, events>>
    /\ UNCHANGED <<errors_vars, pc, inputs, max_retries, sync_vars, metering, model_config,
                   agent_system_prompt, agent_state, retry_vars, response, review_vars,
                   token_usage, current_extraction, result, outcome, tool_calls, last_tool>>

\* The analysis of one execution, over every history of at most MaxEvents
\* events.
InitTimeline ==
    /\ InitWith({DefaultModelId}, {None})
    /\ max_retries = DefaultMaxRetries
    /\ existing_data = None
    /\ InitOptions({None}, {None}, {"Extraction"})
    /\ InitCaller("none", {FALSE})
    /\ NoErrorAnalysis
    /\ sf_pc = "start"
    /\ sf_history \in Histories
    /\ events = <<>>
    /\ timeline_analysis = None

NextTimeline ==
    \/ GetExecutionHistory
    \/ AnalyzeTimeline

SpecTimeline == InitTimeline /\ [][NextTimeline]_vars

(***************************************************************************)
(* System-wide error analysis (general_analysis_tool.py).                  *)
(***************************************************************************)
\* log groups answering one search considered at most
MaxLogGroups == 2

\* events one log group returns to one search considered at most
MaxGroupEvents == 2

\* max_log_events: int = 5
DefaultMaxLogEvents == 5

\* max_log_groups of the searches of the loop
PatternLogGroups == 10

\* len(filtered) < 10
MaxFiltered == 10

\* _get_prioritized_error_patterns
ErrorPatterns ==
    << [pattern |-> "ERROR", max_events |-> 5],
       [pattern |-> "Exception", max_events |-> 3],
       [pattern |-> "ValidationException", max_events |-> 2],
       [pattern |-> "Failed", max_events |-> 2],
       [pattern |-> "Timeout", max_events |-> 1] >>

Min(a, b) == IF a < b THEN a ELSE b

\* the pieces of a message the two re.sub calls remove: a timestamp up to its
\* Z, and a request id
VolatilePieces ==
    {"2025-01-01T00:00:00Z", "2025-01-01T00:00:05Z", "RequestId: 0a1b-2c3d"}

\* error_signature: the message without its timestamps and request ids
error_signature(message) == SelectSeq(message, LAMBDA piece : piece \notin VolatilePieces)

\* the log events a search may return; a message is the sequence of its
\* pieces, each message within max_log_message_length and each stream name
\* within 50 characters
LogEvents ==
    { [timestamp |-> 1, message |-> <<"2025-01-01T00:00:00Z", " ERROR boom">>, log_stream |-> "s1"],
      [timestamp |-> 2, message |-> <<"2025-01-01T00:00:05Z", " ERROR boom">>, log_stream |-> "s2"],
      [timestamp |-> 3, message |-> <<"RequestId: 0a1b-2c3d", " access denied">>, log_stream |-> "s1"] }

RECURSIVE FilterFrom(_, _, _, _)
\* the loop of _filter_and_deduplicate_events
FilterFrom(evs, i, seen_messages, filtered) ==
    IF i > Len(evs) THEN filtered
    ELSE LET sig == error_signature(evs[i].message)
         IN  IF sig \notin seen_messages /\ Len(filtered) < MaxFiltered
             THEN FilterFrom(evs, i + 1, seen_messages \cup {sig}, Append(filtered, evs[i]))
             ELSE FilterFrom(evs, i + 1, seen_messages, filtered)

\* _filter_and_deduplicate_events
filter_and_deduplicate_events(evs) == FilterFrom(evs, 1, {}, <<>>)

\* sequences over S of a length in lo..hi
SeqsOf(S, lo, hi) == UNION {[1..n -> S] : n \in lo..hi}

\* search_stack_logs: of at most max_log_groups log groups, those that found
\* events, each with at most max_events of them
search_stack_logs(max_events, max_log_groups) ==
    SeqsOf(SeqsOf(LogEvents, 1, Min(max_events, MaxGroupEvents)),
           0, Min(max_log_groups, MaxLogGroups))

RECURSIVE Concat(_, _)
\* pattern_events: the events of every result, in order
Concat(results, i) ==
    IF i > Len(results) THEN <<>> ELSE results[i] \o Concat(results, i + 1)

\* total_events_found of a search
total_events_found(results) == Len(Concat(results, 1))

\* max_log_events of the search for the pattern at hand
Requested ==
    Min(ErrorPatterns[pattern_index].max_events, max_log_events - total_events_collected)

\* the loop of analyze_recent_system_errors goes on
LoopGoesOn ==
    /\ er_pc = "patterns"
    /\ pattern_index <= Len(ErrorPatterns)
    /\ total_events_collected < max_log_events

ErrorResult(message) == [error |-> Some(message), events_collected |-> 0, max_events_limit |-> 0]

\* lines 126-172: the effective limit, the tracking table and the documents
StartErrorAnalysis(tracking_table_found) ==
    /\ er_pc = "start"
    /\ max_log_events' = GetOr(config, max_log_events)
    /\ IF tracking_table_found
       THEN /\ er_pc' = "patterns"
            /\ pattern_index' = 1
            /\ UNCHANGED analysis
       ELSE /\ er_pc' = "done"
            /\ analysis' = Some(ErrorResult("TrackingTable not found"))
            /\ UNCHANGED pattern_index
    /\ UNCHANGED <<config, searched, all_log_events, total_events_collected>>
    /\ UNCHANGED <<timeline_vars, pc, inputs, max_retries, sync_vars, metering, model_config,
                   agent_system_prompt, agent_state, retry_vars, response, review_vars,
                   token_usage, current_extraction, result, outcome, tool_calls, last_tool>>

\* one pass of the loop over the patterns: a search and its results
SearchPattern(results) ==
    /\ LoopGoesOn
    /\ searched' = Append(searched, [pattern |-> ErrorPatterns[pattern_index].pattern,
                                     max_log_events |-> Requested,
                                     collected |-> total_events_collected])
    /\ LET filtered_events == filter_and_deduplicate_events(Concat(results, 1))
       IN  IF total_events_found(results) > 0
           THEN /\ all_log_events' = all_log_events \o filtered_events
                /\ total_events_collected' = total_events_collected + Len(filtered_events)
           ELSE UNCHANGED <<all_log_events, total_events_collected>>
    /\ pattern_index' = pattern_index + 1
    /\ UNCHANGED <<er_pc, config, max_log_events, analysis>>
    /\ UNCHANGED <<timeline_vars, pc, inputs, max_retries, sync_vars, metering, model_config,
                   agent_system_prompt, agent_state, retry_vars, response, review_vars,
                   token_usage, current_extraction, result, outcome, tool_calls, last_tool>>

\* a search raises: the outer handler returns the error
SearchRaises ==
    /\ LoopGoesOn
    /\ er_pc' = "done"
    /\ analysis' = Some(ErrorResult("search failed"))
    /\ UNCHANGED <<config, max_log_events, pattern_index, searched, all_log_events,
                   total_events_collected>>
    /\ UNCHANGED <<timeline_vars, pc, inputs, max_retries, sync_vars, metering, model_config,
                   agent_system_prompt, agent_state, retry_vars, response, review_vars,
                   token_usage, current_extraction, result, outcome, tool_calls, last_tool>>

\* the loop ends, by its break or after the last pattern, and the analysis
\* is returned
ReturnAnalysis ==
    /\ er_pc = "patterns"
    /\ ~LoopGoesOn
    /\ er_pc' = "done"
    /\ analysis' = Some([error |-> None,
                         events_collected |-> total_events_collected,
                         max_events_limit |-> max_log_events])
    /\ UNCHANGED <<config, max_log_events, pattern_index, searched, all_log_events,
                   total_events_collected>>
    /\ UNCHANGED <<timeline_vars, pc, inputs, max_retries, sync_vars, metering, model_config,
                   agent_system_prompt, agent_state, retry_vars, response, review_vars,
                   token_usage, current_extraction, result, outcome, tool_calls, last_tool>>

\* the limits a caller passes
LogLimitInputs == {0, 1, 2, DefaultMaxLogEvents}

\* max_log_events of the configuration: absent, or a limit of its own
ConfigInputs == {None, Some(3)}

\* One system-wide analysis, over the limits and every answer of the searches.
InitErrors ==
    /\ InitWith({DefaultModelId}, {None})
    /\ max_retries = DefaultMaxRetries
    /\ existing_data = None
    /\ InitOptions({None}, {None}, {"Extraction"})
    /\ InitCaller("none", {FALSE})
    /\ NoTimeline
    /\ er_pc = "start"
    /\ config \in ConfigInputs
    /\ max_log_events \in LogLimitInputs
    /\ pattern_index = 0
    /\ searched = <<>>
    /\ all_log_events = <<>>
    /\ total_events_collected = 0
    /\ analysis = None

NextErrors ==
    \/ \E found \in BOOLEAN : StartErrorAnalysis(found)
    \/ /\ LoopGoesOn
       /\ \E results \in search_stack_logs(Requested, PatternLogGroups) : SearchPattern(results)
    \/ SearchRaises
    \/ ReturnAnalysis

SpecErrors == InitErrors /\ [][NextErrors]_vars

(***************************************************************************)
(* Properties.                                                             *)
(***************************************************************************)
\* the document after the whole patch set, or where it fails
Patched(patches) == PatchFrom(agent_state[1], patches, 1)

\* a tool call can be made now, and there is a current extraction
CanPatch ==
    /\ pc \in {"invoking", "reviewing"}
    /\ tool_calls < MaxToolCalls
    /\ Truthy(agent_state)

\* this step is a call of apply_json_patches
IsPatchCall == tool_calls' = tool_calls + 1 /\ last_tool'.name = "apply_json_patches"

\* C1: an invocation that returns, returns the record the schema validator
\* produced from the current extraction; a state the validator rejects, or one
\* that was never validated, is never returned.
C1_ReturnedRecordIsValidated ==
    outcome.kind = "returned" =>
        /\ Truthy(agent_state)
        /\ IsValid(agent_state[1])
        /\ outcome.record = Some(ModelDump(agent_state[1]))
        /\ result = outcome.record

\* C1 witness: a record is returned although the last tool call was a patch
\* that failed.
C1_Witness ==
    /\ outcome.kind = "returned"
    /\ last_tool.name = "apply_json_patches"
    /\ last_tool.status = "patch_error"

\* C2: patch atomicity.  Wherever apply_json_patches can be called, a patch
\* set holding an operation that fails (also after operations that applied)
\* makes the call report an error and keep the current extraction as it was;
\* and every call that reported a patch error left the extraction unchanged.
C2_PatchAtomicity ==
    /\ [](CanPatch =>
            \A patches \in PatchSets :
                ~Patched(patches).ok =>
                    /\ apply_json_patches(agent_state, patches).state = agent_state
                    /\ apply_json_patches(agent_state, patches).status = "patch_error")
    /\ [][(IsPatchCall /\ last_tool'.status = "patch_error") =>
              agent_state' = agent_state]_vars

\* C2 witness: a patch set failed at its second operation, after the first
\* one had applied.
C2_Witness ==
    /\ last_tool.name = "apply_json_patches"
    /\ last_tool.status = "patch_error"
    /\ last_tool.n = 2
    /\ Truthy(agent_state)

\* C3: validation-gated commit.  When every operation applies but the validator
\* rejects the patched object, the call reports the error and the current
\* extraction keeps its value; a patched object is stored only when the
\* validator accepted it, and what is stored is its dumped form.
C3_ValidationGatedCommit ==
    /\ [](CanPatch =>
            \A patches \in PatchSets :
                LET r == apply_json_patches(agent_state, patches) IN
                /\ (Patched(patches).ok /\ ~IsValid(Patched(patches).doc)) =>
                       (r.state = agent_state /\ r.status = "validation_error")
                /\ r.state # agent_state =>
                       /\ Patched(patches).ok
                       /\ IsValid(Patched(patches).doc)
                       /\ r.state = Some(ModelDump(Patched(patches).doc)))
    /\ [][(IsPatchCall /\ last_tool'.status = "validation_error") =>
              agent_state' = agent_state]_vars

\* C3 witness: the validator rejected a patched object while a conforming
\* extraction was held.
C3_Witness ==
    /\ last_tool.name = "apply_json_patches"
    /\ last_tool.status = "validation_error"
    /\ Truthy(agent_state)
    /\ IsValid(agent_state[1])

\* C4 as claimed: at every point the current extraction is absent or conforms
\* to the schema, whatever baseline the caller supplied.
C4_StateAbsentOrConforming ==
    IF Truthy(agent_state) THEN IsValid(agent_state[1]) ELSE TRUE

\* C4 amended: the current extraction is absent, or still the baseline exactly
\* as the caller supplied it (it is preloaded without validation), or a record
\* that conforms to the schema.
C4_StateAbsentBaselineOrConforming ==
    IF Truthy(agent_state) /\ agent_state # existing_data
    THEN IsValid(agent_state[1])
    ELSE TRUE

\* C4 witness: a non-conforming baseline was preloaded and a tool call has
\* replaced it.
C4_Witness ==
    /\ Truthy(existing_data)
    /\ ~IsValid(existing_data[1])
    /\ Truthy(agent_state)
    /\ agent_state # existing_data
    /\ last_tool.status = "success"

\* An error the outer loop is meant to retry: one of the four network error
\* kinds, or a message telling of a dropped or aborted connection.
Transient(e) ==
    \/ e.kind \in {"ProtocolError", "ConnectionError", "ReadTimeoutError", "IncompleteRead"}
    \/ Contains(e.msg, <<"Response", "ended", "prematurely">>)
    \/ Contains(e.msg, <<"Connection">>)

\* the first k gateway calls of the first exchange failed with transient errors
TransientPrefix(k) ==
    /\ Len(gateway_log) >= k
    /\ \A i \in 1..k : gateway_log[i] # Ok /\ Transient(gateway_log[i])

C7_ClientErrorNeverRetried ==
    \A i \in 1..Len(gateway_log) :
        gateway_log[i].kind = "ClientError" =>
            /\ i = Len(gateway_log)
            /\ gateway_calls = i
            /\ Len(sleeps) = i - 1
            /\ pc = "done"

\* C8: an invocation ended by the first exchange gives its caller the
\* ClientError itself when that is what the gateway raised, and otherwise a
\* ValueError "Agent invocation failed: <message>".
C8_UndecoratedPropagation ==
    (outcome.kind = "raised" /\ outcome.stage = "exchange") =>
        LET e == gateway_log[Len(gateway_log)] IN
        IF e.kind = "ClientError"
        THEN outcome.error = e
        ELSE /\ outcome.error.kind = "ValueError"
             /\ outcome.error.msg = <<"Agent", "invocation", "failed:">> \o e.msg

\* C8 witness: a ClientError on the third attempt reached the caller.
C8_Witness ==
    /\ outcome.stage = "exchange"
    /\ outcome.error.kind = "ClientError"
    /\ Len(gateway_log) = 3

\* usage reported by an exchange that has returned (nothing before it has)
Reported(resp, key) == IF IsNone(resp) THEN 0 ELSE UsageGet(resp[1], key)

\* C9: token accounting.  Each of the five counters is the sum of what the
\* exchanges that have returned reported (so it is on a successful return), and
\* no step makes a counter smaller.
C9_TokenAccounting ==
    /\ [](\A k \in UsageKeys :
            token_usage[k] = Reported(response, k) + Reported(review_response, k))
    /\ [][\A k \in UsageKeys : token_usage'[k] >= token_usage[k]]_vars

\* C9 witness: a record is returned after a first exchange and a review
\* exchange that both reported usage.
C9_Witness ==
    /\ outcome.kind = "returned"
    /\ ~IsNone(response)
    /\ ~IsNone(review_response)
    /\ Reported(response, "inputTokens") > 0
    /\ Reported(review_response, "inputTokens") > 0
    /\ response # review_response

\* C10: capability clamp.  With M the detected maximum of the identifier, the
\* effective max_tokens is the caller's v when v <= M, M when v > M, and M when
\* no value was given; it never exceeds M nor a supplied v.
C10_CapabilityClamp ==
    pc = "ready" =>
        LET M == ModelMax(model_id)
            eff == model_config.max_tokens
        IN /\ eff <= M
           /\ IF IsNone(max_tokens) THEN eff = M
              ELSE LET v == max_tokens[1] IN
                   /\ v <= M => eff = v
                   /\ v > M => eff = M
                   /\ eff <= v

\* C10 witness: a requested value above the maximum of a generation-4 model
\* was configured as 64000.
C10_Witness ==
    /\ pc = "ready"
    /\ max_tokens = Some(64001)
    /\ model_config.max_tokens = 64000

\* C11: capability detection has a fixed precedence.  With no max_tokens given,
\* the configured maximum is 64000 for an identifier of the generation-4 Claude
\* pattern (in any letter case), else 10000 for one holding a Nova family name,
\* else 8192 for one holding claude-3, else 4096; an identifier of several
\* classes gets the value of the first of them.
C11_CapabilityPrecedence ==
    (pc = "ready" /\ IsNone(max_tokens)) =>
        LET id == LowerId(model_id)
            claude4 == MatchesClaude4(id)
            nova == MatchesNova(id)
            claude3 == Contains(id, <<"claude-", "3">>)
            eff == model_config.max_tokens
        IN /\ claude4 => eff = 64000
           /\ (~claude4 /\ nova) => eff = 10000
           /\ (~claude4 /\ ~nova /\ claude3) => eff = 8192
           /\ (~claude4 /\ ~nova /\ ~claude3) => eff = 4096
           /\ model_id = <<"US.", "ANTHROPIC.", "CLAUDE-", "OPUS-", "4", "-1">> => eff = 64000
           /\ model_id = <<"amazon.", "nova-lite", "-claude-", "3">> => eff = 10000

\* C11 witness: an identifier of all three named classes, no max_tokens given,
\* was configured with the generation-4 maximum.
C11_Witness ==
    /\ pc = "ready"
    /\ IsNone(max_tokens)
    /\ MatchesClaude4(LowerId(model_id))
    /\ MatchesNova(LowerId(model_id))
    /\ Contains(LowerId(model_id), <<"claude-", "3">>)
    /\ model_config.max_tokens = 64000

\* C12 as claimed: an identifier for which supports_tool_caching is true is in
\* the prompt-caching allow-list.
C12_ToolCachingWithinPromptCaching ==
    supports_tool_caching(model_id) => supports_prompt_caching(model_id)

\* a tool call can be made now
CanCallTool == pc \in {"invoking", "reviewing"} /\ tool_calls < MaxToolCalls

\* this step is a call of extraction_tool
IsExtractionCall == tool_calls' = tool_calls + 1 /\ last_tool'.name = "extraction_tool"

\* this step is a call of view_existing_extraction
IsViewCall == tool_calls' = tool_calls + 1 /\ last_tool'.name = "view_existing_extraction"

\* C13: with no current extraction in the state (nothing set, or an empty
\* mapping), apply_json_patches with any patch set reports "no current
\* extraction", applies nothing and leaves the state as it was.
C13_NoCurrentExtraction ==
    /\ []((CanCallTool /\ ~Truthy(agent_state)) =>
            \A patches \in PatchSets :
                LET r == apply_json_patches(agent_state, patches) IN
                /\ r.status = "no_current_extraction"
                /\ r.n = 0
                /\ r.state = agent_state)
    /\ [][(IsPatchCall /\ ~Truthy(agent_state)) =>
              /\ last_tool'.status = "no_current_extraction"
              /\ agent_state' = agent_state]_vars

\* C13 witness: no baseline was given, nothing was set, and a patch call was
\* answered with the error.
C13_Witness ==
    /\ IsNone(existing_data)
    /\ IsNone(agent_state)
    /\ tool_calls = 1
    /\ last_tool.name = "apply_json_patches"
    /\ last_tool.status = "no_current_extraction"

\* C14 as claimed: a call of apply_json_patches with an empty patch sequence
\* never reports status success.
C14_EmptyPatchSetNotAccepted ==
    ~(/\ last_tool.name = "apply_json_patches"
      /\ last_tool.status = "success"
      /\ last_tool.n = 0)

\* C15: extraction_tool overwrites entirely.  Called with a record the
\* validator accepts, it leaves the dumped form of that record as the current
\* extraction whatever was there before; called with a record the validator
\* rejects, it leaves the current extraction as it was.
C15_SetExtractionOverwrites ==
    /\ [](CanCallTool =>
            \A extraction \in InputRecords :
                LET r == extraction_tool(agent_state, extraction) IN
                IF IsValid(extraction)
                THEN r.state = Some(ModelDump(extraction)) /\ r.status = "success"
                ELSE r.state = agent_state /\ r.status = "validation_error")
    /\ [][IsExtractionCall =>
              IF last_tool'.status = "success"
              THEN \E extraction \in InputRecords :
                       /\ IsValid(extraction)
                       /\ agent_state' = Some(ModelDump(extraction))
              ELSE agent_state' = agent_state]_vars

\* C15 witness: a baseline of another shape was preloaded and extraction_tool
\* has replaced it with a record that shares nothing but the schema with it.
C15_Witness ==
    /\ existing_data = Some([name |-> StrV("Jane")])
    /\ last_tool.name = "extraction_tool"
    /\ last_tool.status = "success"
    /\ agent_state = Some([age |-> IntV(35), name |-> StrV("Jane"), rows |-> ListV(<<IntV(1)>>)])

\* C16: view_existing_extraction is read-only.  It returns the current
\* extraction (or nothing) and a call of it changes neither the current
\* extraction, nor the baseline, nor the token counters.
C16_ViewIsReadOnly ==
    /\ [](CanCallTool =>
            /\ view_existing_extraction(agent_state).value = agent_state
            /\ view_existing_extraction(agent_state).state = agent_state)
    /\ [][IsViewCall =>
              /\ agent_state' = agent_state
              /\ existing_data' = existing_data
              /\ token_usage' = token_usage
              /\ result' = result
              /\ outcome' = outcome]_vars

\* C16 witness: a record was returned after a view call that followed a call
\* which had set the extraction.
C16_Witness ==
    /\ outcome.kind = "returned"
    /\ tool_calls = 2
    /\ last_tool.name = "view_existing_extraction"
    /\ IsNone(existing_data)

\* the first exchange has returned and left a record the validator accepts
ExchangeLeftValid ==
    /\ ~IsNone(response)
    /\ Truthy(current_extraction)
    /\ IsValid(current_extraction[1])

\* C17 as claimed: with the review enabled, an invocation whose first exchange
\* left a schema-valid extraction has made the review call by the time it is
\* done; with the review not enabled there is no review call.
C17_ReviewFollowsExtraction ==
    /\ (pc = "done" /\ review_agent /\ ExchangeLeftValid) => review_calls >= 1
    /\ ~review_agent => review_calls = 0

\* C18 as claimed: once the review exchange has returned, a changed current
\* extraction that validates is the returned record, and otherwise the
\* invocation returns the result it had before the review.
C18_ReviewOutcome ==
    (pc = "done" /\ ~IsNone(review_response)) =>
        IF agent_state # current_extraction /\ Truthy(agent_state) /\ IsValid(agent_state[1])
        THEN outcome = Returned(Some(ModelDump(agent_state[1])))
        ELSE outcome.kind = "returned"

\* C19: schema validation failure is terminal.  When the first exchange has
\* returned and the non-empty current extraction does not validate, the
\* invocation is over with the validation error, the successful gateway call
\* was the last one and no review call was made, with the review enabled or not.
C19_ValidationFailureIsTerminal ==
    (~IsNone(response) /\ Truthy(current_extraction) /\ ~IsValid(current_extraction[1])) =>
        /\ pc = "done"
        /\ outcome = Raised(ValidationFailure, "validate")
        /\ IsNone(result)
        /\ review_calls = 0
        /\ IsNone(review_response)
        /\ gateway_calls = Len(gateway_log)
        /\ gateway_log[Len(gateway_log)] = Ok

\* C19 witness: the review was enabled and the invocation ended with the
\* validation error after a retried exchange.
C19_Witness ==
    /\ review_agent
    /\ outcome = Raised(ValidationFailure, "validate")
    /\ gateway_calls = 2
    /\ Truthy(current_extraction)

\* the first exchange, and the review if it is enabled, have returned
ExchangesCompleted ==
    /\ pc = "done"
    /\ ~IsNone(response)
    /\ review_agent => ~IsNone(review_response)

\* C20 as claimed: the final error is raised exactly when the exchanges have
\* completed and no record has passed the validator.
C20_FinalErrorIffNothingValidated ==
    (outcome.kind = "raised" /\ outcome.error = NoStructuredOutput)
        <=> (ExchangesCompleted /\ IsNone(result))

\* C20 amended: the final error is raised exactly when the first exchange has
\* returned leaving no current extraction (absent or empty) and the review, if
\* enabled, has returned too without a record having passed the validator; an
\* invocation with a validated record never raises it and returns that record;
\* no record is returned with it; a non-empty extraction the validator rejects
\* after the first exchange raises the validation error instead.
C20_FinalErrorIffNothingExtracted ==
    /\ (outcome.kind = "raised" /\ outcome.error = NoStructuredOutput)
           <=> (ExchangesCompleted /\ ~Truthy(current_extraction) /\ IsNone(result))
    /\ (pc = "done" /\ ~IsNone(result)) =>
           (outcome.kind = "returned" /\ outcome.record = result)
    /\ outcome.kind = "raised" => IsNone(outcome.record)
    /\ (ExchangesCompleted /\ Truthy(current_extraction) /\ IsNone(result)) =>
           outcome = Raised(ValidationFailure, "validate")

\* C20 witness: the review returned after a tool had rejected a record, nothing
\* was ever stored, and the invocation ended with the final error.
C20_Witness ==
    /\ outcome = Raised(NoStructuredOutput, "final")
    /\ ~IsNone(review_response)
    /\ last_tool.status = "validation_error"
    /\ IsNone(agent_state)

RECURSIVE InOrder(_, _)
InOrder(doc, patches) ==
    IF patches = <<>> THEN Done(doc)
    ELSE LET r == ApplyOp(doc, Head(patches)) IN
         IF r.ok THEN InOrder(r.doc, Tail(patches)) ELSE Failed(doc)

\* C22: ordered patch application.  apply_json_patches succeeds exactly when
\* the operations, applied in sequence order each on the result of the one
\* before, all apply and give an object the validator accepts, and the record
\* it stores is that object; {age: 34, name: "Jane"} with [replace /age 35]
\* becomes {age: 35, name: "Jane"}, the other fields as they were.
C22_OrderedPatchApplication ==
    /\ [](CanPatch =>
            \A patches \in PatchSets :
                LET r == apply_json_patches(agent_state, patches)
                    seq == InOrder(agent_state[1], patches)
                IN /\ r.status = "success" <=> (seq.ok /\ IsValid(seq.doc))
                   /\ r.status = "success" => r.state = Some(ModelDump(seq.doc)))
    /\ [](apply_json_patches(Some(Jane), <<Op("replace", <<"age">>, IntV(35))>>).state
            = Some([age |-> IntV(35), name |-> StrV("Jane"), rows |-> ListV(<<>>)]))

\* C22 witness: a patch set of two operations was applied to the baseline and
\* the record it left was returned.
C22_Witness ==
    /\ existing_data = Some(Jane)
    /\ tool_calls = 1
    /\ last_tool = [name |-> "apply_json_patches", status |-> "success", n |-> 2]
    /\ agent_state = Some([age |-> IntV(35), name |-> StrV("Jane"), rows |-> ListV(<<IntV(1)>>)])
    /\ outcome.kind = "returned"

\* this step is a call of apply_json_patches that reported a failure
IsFailedPatchCall ==
    /\ IsPatchCall
    /\ last_tool'.status \in {"patch_error", "validation_error"}

\* C23: a failed apply_json_patches is a tool-level error.  The call leaves
\* the invocation where it was (same exchange, no outcome), the record a view
\* returns afterwards is the one held before the call, and further tool calls
\* stay possible within the bound.
C23_FailedPatchIsRecoverable ==
    [][IsFailedPatchCall =>
          /\ pc' = pc
          /\ outcome' = Running
          /\ result' = result
          /\ view_existing_extraction(agent_state').value = agent_state
          /\ tool_calls' < MaxToolCalls => (CanCallTool)']_vars

\* C23 witness: with no baseline, the second tool call was a patch set that
\* the validator rejected, and the invocation went on to return the record.
C23_Witness ==
    /\ IsNone(existing_data)
    /\ outcome.kind = "returned"
    /\ tool_calls = 2
    /\ last_tool.name = "apply_json_patches"
    /\ last_tool.status = "validation_error"

\* validating m again succeeds and gives m back
AcceptedUnchanged(st) ==
    /\ Truthy(st)
    /\ ValidateExtraction(st[1]) = [ok |-> TRUE, result |-> st]

C29_ReviewOnlyWithoutExtraction ==
    /\ [](review_calls >= 1 =>
            /\ review_agent
            /\ ~IsNone(response)
            /\ ~Truthy(current_extraction))
    /\ []((~IsNone(response) /\ Truthy(current_extraction)) =>
            (review_calls = 0 /\ IsNone(review_response)))
    /\ [](review_calls \in {0, 1})
    /\ [][review_calls' # review_calls =>
              /\ pc = "invoking" /\ pc' = "reviewing"
              /\ review_agent
              /\ ~Truthy(agent_state)
              /\ ~IsNone(response')]_vars

\* C29 witness: the first exchange stored nothing, the review was made, and a
\* record stored during the review was returned.
C29_Witness ==
    /\ review_calls = 1
    /\ IsNone(current_extraction)
    /\ Truthy(agent_state)
    /\ outcome.kind = "returned"

\* C30 as claimed: the request of the review exchange is the review message.
C30_ReviewRequestIsReviewMessage ==
    review_calls >= 1 => review_request = "review_message"

\* C24: structured_output is blocking.  On both paths it has given its caller
\* something only when the invocation is over, and in the worker path only
\* after the worker thread has ended; what it gives is the invocation's
\* (record, metering) when the invocation returned and an error when it
\* raised, never anything else.
C24_BlockingEntryPoint ==
    /\ [](sync_outcome.kind # "running" =>
            /\ pc = "done"
            /\ sync_pc = "returned"
            /\ caller_in_loop =>
                   (IsNone(thread_result) # IsNone(thread_exception))
            /\ outcome.kind = "returned" =>
                   sync_outcome = SyncReturned(Some([record |-> outcome.record,
                                                    metering |-> metering]))
            /\ outcome.kind = "raised" =>
                   (sync_outcome.kind = "raised" /\ IsNone(sync_outcome.value)))
    /\ [][sync_outcome' # sync_outcome =>
              /\ pc = "done"
              /\ IF caller_in_loop THEN sync_pc = "thread_ended" ELSE sync_pc = "run"]_vars

\* C24 witness: called from inside a running event loop, structured_output
\* returned the record and the metering of an invocation that had retried.
C24_Witness ==
    /\ caller_in_loop
    /\ sync_outcome.kind = "returned"
    /\ sync_outcome.value[1].record = outcome.record
    /\ gateway_calls = 2
    /\ ~IsNone(thread_result)

\* C25: metering shape.  A returned invocation gives a metering mapping with
\* exactly one entry; its key is the context label, "/bedrock/" and the model
\* identifier, its value the five accumulated counters; nothing is metered
\* when the invocation did not return.
C25_MeteringShape ==
    IF outcome.kind = "returned"
    THEN /\ ~IsNone(metering)
         /\ Cardinality(DOMAIN metering[1]) = 1
         /\ DOMAIN metering[1] = {<<context, "/bedrock/">> \o model_id}
         /\ \A k \in DOMAIN metering[1] :
                /\ DOMAIN metering[1][k] = UsageKeys
                /\ \A c \in UsageKeys : metering[1][k][c] = token_usage[c]
    ELSE IsNone(metering)

\* C25 witness: a record was returned under the label "Assessment" after a
\* first exchange and a review exchange that both reported usage.
C25_Witness ==
    /\ outcome.kind = "returned"
    /\ context = "Assessment"
    /\ ~IsNone(review_response)
    /\ token_usage["inputTokens"] = 13

\* C28 as claimed: whatever the caller passes, the instruction text is the
\* default text, then the supplementary instruction if there is one, then the
\* schema.
C28_DefaultTextAlwaysFirst ==
    pc = "ready" =>
        agent_system_prompt =
            SYSTEM_PROMPT
            \o (IF TextGiven(custom_instruction)
                THEN <<"\n\nCustom Instructions for this specific task: ">>
                     \o custom_instruction[1]
                ELSE <<>>)
            \o <<"\n\nExpected Schema:\n">> \o SchemaJson

\* the text from piece i to piece j
Pieces(text, i, j) == SubSeq(text, i, j)

\* C28 amended: the instruction text begins with the caller's system prompt
\* when one is given (non-empty) and with the default text otherwise, ends
\* with the schema, and holds between them the supplementary instruction,
\* introduced by its heading, exactly when one is given (non-empty); a
\* supplementary instruction never replaces what precedes it.
C28_AppendOnlyAfterBase ==
    pc = "ready" =>
        LET text == agent_system_prompt
            base == IF TextGiven(system_prompt) THEN system_prompt[1] ELSE SYSTEM_PROMPT
            n == Len(text)
            b == Len(base)
        IN /\ n >= b + 2
           /\ Pieces(text, 1, b) = base
           /\ Pieces(text, n - 1, n) = <<"\n\nExpected Schema:\n">> \o SchemaJson
           /\ IF TextGiven(custom_instruction)
              THEN Pieces(text, b + 1, n - 2) =
                       <<"\n\nCustom Instructions for this specific task: ">>
                       \o custom_instruction[1]
              ELSE n = b + 2
           /\ ~TextGiven(system_prompt) => Pieces(text, 1, 1) = <<"SYSTEM_PROMPT">>

\* C28 witness: the caller gave both texts; the default text is not part of
\* the instruction text.
C28_Witness ==
    /\ pc = "ready"
    /\ TextGiven(system_prompt)
    /\ TextGiven(custom_instruction)
    /\ \A i \in 1..Len(agent_system_prompt) : agent_system_prompt[i] # "SYSTEM_PROMPT"
    /\ Len(agent_system_prompt) = 5

\* C26: bounded termination.  If every exchange that is started ends, every
\* invocation ends, with a returned record or a raised error, after at most
\* three gateway calls of the first exchange and at most one of the review.
C26_BoundedTermination ==
    /\ <>(pc = "done")
    /\ [](pc = "done" => outcome.kind \in {"returned", "raised"})
    /\ [](gateway_calls <= 3 /\ review_calls <= 1)
    /\ [](pc = "ready" => attempt < 3)

\* C26 witness: an invocation ended after three gateway calls of the first
\* exchange and one of the review.
C26_Witness ==
    /\ pc = "done"
    /\ gateway_calls = 3
    /\ review_calls = 1
    /\ ~IsNone(review_response)

\* C31: the current extraction is not reset between outer attempts.  An
\* attempt that fails and is retried leaves the current extraction and the
\* token counters as the tool calls made during it left them, the next attempt
\* starts from there, the exchange that succeeds returns the validated state
\* whenever it was stored, and nothing is counted before an exchange returns.
C31_StateKeptAcrossAttempts ==
    /\ [][(pc = "invoking" /\ pc' = "ready") =>
              /\ agent_state' = agent_state
              /\ token_usage' = token_usage
              /\ tool_calls' = tool_calls
              /\ last_tool' = last_tool]_vars
    /\ [][(pc = "ready" /\ pc' = "invoking") => agent_state' = agent_state]_vars
    /\ [][(pc = "invoking" /\ response' # response
             /\ Truthy(agent_state) /\ IsValid(agent_state[1])) =>
              outcome' = Returned(Some(ModelDump(agent_state[1])))]_vars
    /\ [](pc \in {"ready", "invoking"} => token_usage = ZeroUsage)

\* C31 witness: with no baseline, the first attempt failed after a tool call
\* had stored a record, and the record is there before the second attempt.
C31_Witness ==
    /\ pc = "ready"
    /\ attempt = 1
    /\ IsNone(existing_data)
    /\ Truthy(agent_state)
    /\ last_tool.status = "success"
    /\ token_usage = ZeroUsage

\* C32: the review exchange is outside the outer retry.  An error raised by
\* the gateway during the review ends the invocation in that step, without a
\* sleep, a new attempt or a second review call, and the caller gets the error
\* as the gateway raised it.
C32_ReviewErrorsNotRetried ==
    /\ [](outcome.stage = "review" =>
            /\ pc = "done"
            /\ outcome.kind = "raised"
            /\ outcome.error \in GatewayErrors
            /\ review_calls = 1
            /\ IsNone(review_response)
            /\ IsNone(result))
    /\ [][(pc = "reviewing" /\ IsNone(review_response')) =>
              \/ pc' = "reviewing"
              \/ /\ pc' = "done"
                 /\ outcome'.stage = "review"
                 /\ sleeps' = sleeps
                 /\ attempt' = attempt
                 /\ gateway_calls' = gateway_calls
                 /\ review_calls' = review_calls]_vars

\* C32 witness: a transient error of the review ended an invocation that had
\* slept once for a transient error of the first exchange.
C32_Witness ==
    /\ outcome.stage = "review"
    /\ Transient(outcome.error)
    /\ outcome.error.kind = "ProtocolError"
    /\ sleeps = <<2>>

\* C33 as claimed: on the worker path the caller of structured_output gets the
\* error the invocation raised, whatever its kind.
C33_WorkerErrorReraisedAsIs ==
    (caller_in_loop /\ sync_outcome.kind = "raised") =>
        sync_outcome.error = outcome.error

\* C34: the outer attempt count is fixed.  Whatever max_retries the caller
\* passes, it becomes max_attempts of the transport configuration and the outer
\* loop runs with 3: a second transient failure is still retried, a third ends
\* the invocation, and there are never more than three gateway calls in the
\* first exchange.
C34_OuterAttemptsFixed ==
    /\ [](gateway_calls <= 3)
    /\ [](pc # "init" => max_retries = 3)
    /\ []((TransientPrefix(2) /\ Len(gateway_log) = 2) => pc \in {"ready", "invoking"})
    /\ [](TransientPrefix(3) => (pc = "done" /\ outcome.stage = "exchange"))
    /\ [][pc = "init" => model_config'.max_attempts = max_retries]_vars
    /\ [][pc # "init" => model_config'.max_attempts = model_config.max_attempts]_vars

\* C34 witness: a caller passed max_retries = 0 and the first exchange was
\* attempted three times.
C34_Witness ==
    /\ model_config.max_attempts = 0
    /\ gateway_calls = 3
    /\ Len(sleeps) = 2
    /\ pc = "done"

\* C35: in the model configuration tool caching goes with prompt caching.
\* cache_tools is set only if cache_prompt is set; for an identifier outside
\* the prompt-caching allow-list neither is set, also when
\* supports_tool_caching is true for it; for one in the list cache_prompt is
\* set, and cache_tools exactly when supports_tool_caching is true.
C35_ToolCachingNeedsPromptCaching ==
    pc = "ready" =>
        /\ ~IsNone(model_config.cache_tools) => ~IsNone(model_config.cache_prompt)
        /\ model_id \notin CACHEPOINT_SUPPORTED_MODELS =>
               (IsNone(model_config.cache_prompt) /\ IsNone(model_config.cache_tools))
        /\ model_id \in CACHEPOINT_SUPPORTED_MODELS =>
               /\ model_config.cache_prompt = Some("default")
               /\ ~IsNone(model_config.cache_tools) <=> supports_tool_caching(model_id)

\* C35 witness: an identifier outside the allow-list for which
\* supports_tool_caching is true was configured without either cache key.
C35_Witness ==
    /\ pc = "ready"
    /\ supports_tool_caching(model_id)
    /\ model_id \notin CACHEPOINT_SUPPORTED_MODELS
    /\ IsNone(model_config.cache_prompt)
    /\ IsNone(model_config.cache_tools)

\* positions of the failure events and of the states entered in the history,
\* which is in chronological order
FailureTimes == {i \in 1..Len(sf_history) : sf_history[i].type \in failure_events}

EnteredTimes == {i \in 1..Len(sf_history) : sf_history[i].type = "StateEntered"}

Earliest(S) == CHOOSE i \in S : \A j \in S : i <= j

Latest(S) == CHOOSE i \in S : \A j \in S : j <= i

\* the name of the state entered last among the positions S, None without one
StateEnteredLast(S) ==
    IF S = {} THEN None ELSE Some(GetOr(sf_history[Latest(S)].name, "Unknown"))

\* C36 as claimed: over the history as fetched, failure_point is the
\* chronologically first failure event, its state is the state entered most
\* recently before that failure, and last_successful_state is the
\* chronologically last state entered.
C36_TimelineIsChronological ==
    (sf_pc = "done" /\ IsNone(timeline_analysis[1].error)) =>
        LET r == timeline_analysis[1]
        IN  /\ r.last_successful_state = StateEnteredLast(EnteredTimes)
            /\ IF FailureTimes = {} THEN IsNone(r.failure_point)
               ELSE /\ ~IsNone(r.failure_point)
                    /\ r.failure_point[1].timestamp = Earliest(FailureTimes)
                    /\ r.failure_point[1].state =
                           StateEnteredLast({i \in EnteredTimes : i < Earliest(FailureTimes)})

\* C37 as claimed: the events collected over all patterns never exceed the
\* effective limit, whatever the searches return over their log groups, and
\* once the limit is reached no further pattern is searched.
C37_CollectedWithinLimit ==
    /\ [](er_pc \in {"patterns", "done"} => total_events_collected <= max_log_events)
    /\ []((er_pc = "done" /\ IsNone(analysis[1].error)) =>
              analysis[1].events_collected <= analysis[1].max_events_limit)
    /\ [][(er_pc = "patterns" /\ total_events_collected >= max_log_events) =>
              searched' = searched]_vars

====
